---- MODULE Spec2Model ----
(***************************************************************************)
(* Model of arrange_lyrics_chat_gpt (src/arrange_lyrics_chat_gpt.py): the  *)
(* vertical-acrostic layout synthesizer.  A call is a run of the state     *)
(* machine  start -> loop (one step per cap of the growth schedule) ->     *)
(* done.  Words and the band token are the values produced by clean_text;  *)
(* characters are one-character strings, words are sequences of them.      *)
(* Word and letter indices keep the 0-based values of the source.  Scores  *)
(* are kept in half units (twice the float of the source), so that every   *)
(* score is an integer and every comparison of the source is preserved.    *)
(***************************************************************************)
EXTENDS Integers, Sequences, FiniteSets, TLC

VARIABLES
  words,        \* text.split(): the cleaned words
  band,         \* the cleaned token, spaces removed
  min_chars,    \* argument min_chars
  max_chars,    \* argument max_chars
  growth_arg,   \* argument growth_steps: [given |-> FALSE] is None
  pc,           \* "start", "loop" (top of the for loop), "done" (returned)
  growth_steps, \* the schedule after defaulting
  step,         \* 0-based index of the next schedule entry to try
  passes,       \* one record per loop iteration executed so far
  sol,          \* best_overall[1] of the successful iteration
  target_col,   \* target_col of the successful iteration
  lines,        \* lines of the successful iteration
  result,       \* the returned string, as a sequence of characters
  cand_cache,   \* lru cache of the function bound to the name candidates
  solve_cache,  \* lru cache of the function bound to the name solve
  cache_reads   \* the cache entries returned by a hit in the last iteration

vars == <<words, band, min_chars, max_chars, growth_arg, pc, growth_steps,
          step, passes, sol, target_col, lines, result,
          cand_cache, solve_cache, cache_reads>>

(***************************************************************************)
(* Bounds of the explored inputs.                                          *)
(***************************************************************************)
MaxWords == 3
MaxLongWords == 6
MaxMaxChars == 128

SeqsUpTo(S, k) == UNION { [1..l -> S] : l \in 0..k }

\* "sz" stands for the letter U+00DF, whose upper case is "SS"
BandLetters == {"a", "b"}
SpecialBands == { <<"sz">>, <<"a", "sz">>, <<"sz", "a">> }
LongerBands == { <<"a", "a", "b">>, <<"a", "b", "a">>, <<"a", "b", "b">>,
                 <<"b", "a", "b">> }
WordSet == { <<"a">>, <<"b">>, <<"a", "a", "b">>, <<"sz">> }
LongWordSet == { <<"a">>, <<"c">>, <<"c", "c", "c", "c">> }
Bands == SeqsUpTo(BandLetters, 2) \cup LongerBands \cup SpecialBands
LongBands == { <<"a", "a">> }

NoSteps == [given |-> FALSE, steps |-> <<>>]
Given(s) == [given |-> TRUE, steps |-> s]

Configs ==
  { [min |-> 8, max |-> 24, growth |-> NoSteps],
    [min |-> 8, max |-> 1,  growth |-> NoSteps],
    [min |-> 4, max |-> 24, growth |-> Given(<<3, 7>>)],
    [min |-> 0, max |-> 24, growth |-> Given(<<4, 2>>)],
    [min |-> 8, max |-> 24, growth |-> Given(<<>>)] }

LongConfigs ==
  { [min |-> 0, max |-> 24, growth |-> Given(<<7>>)],
    [min |-> 8, max |-> 5,  growth |-> NoSteps] }

\* calls that leave growth_steps to its default, for every max_chars
ShortTexts == { <<>>, <<<<"a">>>>, <<<<"a", "a", "b">>, <<"b">>>> }
ShortBands == { <<"a">>, <<"b">>, <<"a", "b">> }
DefaultConfigs ==
  { [min |-> 8, max |-> mc, growth |-> NoSteps] : mc \in 1..MaxMaxChars }

\* calls whose min_chars makes a score reach the 10**9 of solve's INF
HugeMin == 1000000001
HugeBands == { <<"a">>, <<"b">> }
HugeConfigs ==
  { [min |-> HugeMin, max |-> 24, growth |-> NoSteps],
    [min |-> HugeMin, max |-> 24, growth |-> Given(<<3, 7>>)] }

\* calls in which one candidate list has more than TOP_K entries
Wide == [x \in 1..8 |-> "b"]
WideTexts ==
  { <<Wide, <<"a">>, <<"a">>, <<"c">>, <<"a">>, <<"c">>, Wide>>,
    <<Wide, <<"a">>, <<"a">>, <<"c">>, <<"a">>, Wide>> }
WideBands == { <<"b", "a", "b">> }
WideConfigs ==
  { [min |-> 0, max |-> 24, growth |-> Given(<<9>>)],
    [min |-> 0, max |-> 24, growth |-> Given(<<9, 10>>)] }

(***************************************************************************)
(* Characters.                                                             *)
(***************************************************************************)
\* str.upper() of one character; the result may be longer than one character
Upper(c) ==
  CASE c = "a" -> <<"A">>
    [] c = "b" -> <<"B">>
    [] c = "c" -> <<"C">>
    [] c = "sz" -> <<"S", "S">>
    [] OTHER -> <<c>>

Sentinel ==
  <<"C", "A", "N", "N", "O", "T", "_", "A", "S", "S", "E", "M", "B", "L", "E">>

(***************************************************************************)
(* Helpers.                                                                *)
(***************************************************************************)
n == Len(words)
m == Len(band)

Abs(x) == IF x < 0 THEN -x ELSE x
Max2(x, y) == IF x > y THEN x ELSE y

\* ch in word
Contains(word, ch) == \E k \in 1..Len(word) : word[k] = ch

\* cumlen[k]: total length of words[0..k-1]
RECURSIVE cumlen(_)
cumlen(k) == IF k = 0 THEN 0 ELSE cumlen(k - 1) + Len(words[k])

seg_len(a, b) == (cumlen(b + 1) - cumlen(a)) + (b - a)

\* the 0-based indices at which ch occurs in word
occurrences(word, ch) == { k \in 0..(Len(word) - 1) : word[k + 1] = ch }

NoneIdx == -1

\* occurrence closest to the centre (len-1)/2, ties to the lower index;
\* distances are doubled to stay in the integers
choose_anchor_index(word, ch) ==
  LET idxs == occurrences(word, ch)
      d(k) == Abs(2 * k - (Len(word) - 1))
  IN IF idxs = {} THEN NoneIdx
     ELSE CHOOSE k \in idxs :
            \A l \in idxs : d(k) < d(l) \/ (d(k) = d(l) /\ k <= l)

\* twice the value of segment_score
segment_score(anchor_col, L, min_len, max_len) ==
  LET center2 == IF L > 0 THEN L - 1 ELSE 0
      short2 == IF L < min_len THEN 2 * (min_len - L) ELSE 0
      long2 == IF L > max_len THEN 4 * (L - max_len) ELSE 0
  IN Abs(2 * anchor_col - center2) + short2 + long2

(***************************************************************************)
(* Candidate generator (the body of candidates(i, pos) at cap max_cap).    *)
(***************************************************************************)
TOP_K == 8

\* variant: the separating spaces before the anchor word are not counted
make_candidate_nospaces(a, j, ee, anchor_in_word, max_cap) ==
  LET anchor_col == (cumlen(j) - cumlen(a)) + anchor_in_word
      L == seg_len(a, ee)
  IN [sc |-> segment_score(anchor_col, L, min_chars, max_cap),
      a |-> a, e |-> ee, j |-> j, aidx |-> anchor_in_word,
      acol |-> anchor_col, L |-> L]

\* variant: the scorer is given max_chars, not the cap of the iteration
make_candidate_maxChars(a, j, ee, anchor_in_word, max_cap) ==
  LET chars_before_anchor == (cumlen(j) - cumlen(a)) + (j - a)
      anchor_col == chars_before_anchor + anchor_in_word
      L == seg_len(a, ee)
  IN [sc |-> segment_score(anchor_col, L, min_chars, max_chars),
      a |-> a, e |-> ee, j |-> j, aidx |-> anchor_in_word,
      acol |-> anchor_col, L |-> L]

make_candidate(a, j, ee, anchor_in_word, max_cap) ==
  LET chars_before_anchor == (cumlen(j) - cumlen(a)) + (j - a)
      anchor_col == chars_before_anchor + anchor_in_word
      L == seg_len(a, ee)
  IN [sc |-> segment_score(anchor_col, L, min_chars, max_cap),
      a |-> a, e |-> ee, j |-> j, aidx |-> anchor_in_word,
      acol |-> anchor_col, L |-> L]

\* the while loop that advances e from j
RECURSIVE ExtendEnd(_, _, _)
ExtendEnd(pos, e, max_cap) ==
  IF e < n /\ seg_len(pos, e) < min_chars /\ seg_len(pos, e) <= max_cap
  THEN ExtendEnd(pos, e + 1, max_cap)
  ELSE e

\* for off in range(0, 3): the candidates ending at e0 + off; the pairs
\* (ee, j) of one j are distinct, so the 'tried' test never skips
RECURSIVE Extended(_, _, _, _, _, _)
Extended(pos, j, anchor_in_word, e0, off, max_cap) ==
  IF off > 2 THEN <<>>
  ELSE LET ee == e0 + off IN
       IF ee >= n THEN <<>>
       ELSE IF seg_len(pos, ee) > max_cap THEN <<>>
       ELSE <<make_candidate(pos, j, ee, anchor_in_word, max_cap)>>
            \o Extended(pos, j, anchor_in_word, e0, off + 1, max_cap)

\* variant: the last line is extended past its anchor word like the others
PerAnchor_extendLast(i, pos, j, max_cap) ==
  LET anchor_in_word == choose_anchor_index(words[j + 1], band[i + 1])
      alone == IF seg_len(pos, j) <= max_cap
               THEN <<make_candidate(pos, j, j, anchor_in_word, max_cap)>>
               ELSE <<>>
      e == ExtendEnd(pos, j, max_cap)
      e0 == IF e < n /\ seg_len(pos, e) <= max_cap THEN e ELSE Max2(j, e - 1)
  IN alone \o Extended(pos, j, anchor_in_word, e0, 0, max_cap)

\* what one iteration of the j loop appends to out, for a word that
\* contains the letter
PerAnchor(i, pos, j, max_cap) ==
  LET anchor_in_word == choose_anchor_index(words[j + 1], band[i + 1])
      alone == IF seg_len(pos, j) <= max_cap
               THEN <<make_candidate(pos, j, j, anchor_in_word, max_cap)>>
               ELSE <<>>
  IN IF i = m - 1 THEN alone
     ELSE LET e == ExtendEnd(pos, j, max_cap)
              e0 == IF e < n /\ seg_len(pos, e) <= max_cap
                    THEN e ELSE Max2(j, e - 1)
          IN alone \o Extended(pos, j, anchor_in_word, e0, 0, max_cap)

\* variant: every word within the cap is taken as an anchor word
RECURSIVE AnchorLoop_anyWord(_, _, _, _)
AnchorLoop_anyWord(i, pos, j, max_cap) ==
  IF j >= n \/ (i = 0 /\ j > pos) THEN <<>>
  ELSE IF seg_len(pos, j) > max_cap THEN <<>>
  ELSE PerAnchor(i, pos, j, max_cap) \o AnchorLoop_anyWord(i, pos, j + 1, max_cap)

\* the j loop from j on: out, in append order
RECURSIVE AnchorLoop(_, _, _, _)
AnchorLoop(i, pos, j, max_cap) ==
  IF j >= n \/ (i = 0 /\ j > pos) THEN <<>>
  ELSE IF seg_len(pos, j) > max_cap THEN <<>>
  ELSE IF ~Contains(words[j + 1], band[i + 1])
       THEN IF i = 0 THEN <<>> ELSE AnchorLoop(i, pos, j + 1, max_cap)
  ELSE PerAnchor(i, pos, j, max_cap) \o AnchorLoop(i, pos, j + 1, max_cap)

\* list.sort(key=score): stable
RECURSIVE InsertByScore(_, _)
InsertByScore(s, x) ==
  IF s = <<>> THEN <<x>>
  ELSE IF s[Len(s)].sc <= x.sc THEN Append(s, x)
  ELSE Append(InsertByScore(SubSeq(s, 1, Len(s) - 1), x), s[Len(s)])

RECURSIVE SortByScore(_)
SortByScore(s) ==
  IF s = <<>> THEN <<>>
  ELSE InsertByScore(SortByScore(SubSeq(s, 1, Len(s) - 1)), s[Len(s)])

\* the first e == j candidate of every j, in the order of out
RECURSIVE ForcedAlone(_, _)
ForcedAlone(out, seen_j) ==
  IF out = <<>> THEN <<>>
  ELSE LET cand == Head(out) IN
       IF cand.e = cand.j /\ cand.j \notin seen_j
       THEN <<cand>> \o ForcedAlone(Tail(out), seen_j \cup {cand.j})
       ELSE ForcedAlone(Tail(out), seen_j)

Key(cand) == <<cand.a, cand.e, cand.j, cand.aidx, cand.acol, cand.L>>

\* kept := kept plus every forced candidate whose key is not yet present
RECURSIVE MergeForced(_, _)
MergeForced(kept, forced) ==
  IF forced = <<>> THEN kept
  ELSE IF Key(Head(forced)) \in { Key(kept[k]) : k \in 1..Len(kept) }
       THEN MergeForced(kept, Tail(forced))
       ELSE MergeForced(Append(kept, Head(forced)), Tail(forced))

Prune(out) ==
  LET sorted == SortByScore(out)
      kept == SubSeq(sorted, 1, IF Len(sorted) < TOP_K THEN Len(sorted) ELSE TOP_K)
  IN SortByScore(MergeForced(kept, ForcedAlone(sorted, {})))

candidates(i, pos, max_cap) ==
  IF pos >= n THEN <<>>
  ELSE LET out == AnchorLoop(i, pos, pos, max_cap)
       IN IF out = <<>> THEN <<>> ELSE Prune(out)

(***************************************************************************)
(* Optimizer (solve) and start selection.                                  *)
(***************************************************************************)
INF == 2 * 1000000000

Entry(c) == [a |-> c.a, e |-> c.e, j |-> c.j, aidx |-> c.aidx, acol |-> c.acol]

RECURSIVE solve(_, _, _)
RECURSIVE SolveLoop(_, _, _, _)
RECURSIVE SolveLoop_reuse(_, _, _, _)
\* variant: the next line starts at the last word of this line (e, not e + 1)
SolveLoop_reuse(i, cands, best, max_cap) ==
  IF cands = <<>> THEN best
  ELSE LET c == Head(cands)
           nxt == solve(i + 1, c.e, max_cap)
           total == c.sc + nxt.cost
       IN IF nxt.cost >= INF THEN SolveLoop_reuse(i, Tail(cands), best, max_cap)
          ELSE IF total < best.cost
               THEN SolveLoop_reuse(i, Tail(cands),
                              [cost |-> total, sol |-> <<Entry(c)>> \o nxt.sol],
                              max_cap)
               ELSE SolveLoop_reuse(i, Tail(cands), best, max_cap)

\* the for loop of solve over cands, from the current best
SolveLoop(i, cands, best, max_cap) ==
  IF cands = <<>> THEN best
  ELSE LET c == Head(cands)
           nxt == solve(i + 1, c.e + 1, max_cap)
           total == c.sc + nxt.cost
       IN IF nxt.cost >= INF THEN SolveLoop(i, Tail(cands), best, max_cap)
          ELSE IF total < best.cost
               THEN SolveLoop(i, Tail(cands),
                              [cost |-> total, sol |-> <<Entry(c)>> \o nxt.sol],
                              max_cap)
               ELSE SolveLoop(i, Tail(cands), best, max_cap)

solve(i, pos, max_cap) ==
  IF i = m THEN [cost |-> 0, sol |-> <<>>]
  ELSE LET cands == candidates(i, pos, max_cap)
       IN IF cands = <<>> THEN [cost |-> INF, sol |-> <<>>]
          ELSE SolveLoop(i, cands, [cost |-> INF, sol |-> <<>>], max_cap)

\* starts = [p for p in range(n) if band[0] in words[p]], from p on
RECURSIVE Starts(_)
Starts(p) ==
  IF p >= n THEN <<>>
  ELSE IF Contains(words[p + 1], band[1]) THEN <<p>> \o Starts(p + 1)
  ELSE Starts(p + 1)

\* the for loop over starts; found = FALSE is best_overall[1] is None
RECURSIVE StartLoop(_, _, _)
StartLoop(starts, best, max_cap) ==
  IF starts = <<>> THEN best
  ELSE LET r == solve(0, Head(starts), max_cap)
       IN IF r.cost < best.cost
          THEN StartLoop(Tail(starts),
                         [found |-> TRUE, cost |-> r.cost, sol |-> r.sol], max_cap)
          ELSE StartLoop(Tail(starts), best, max_cap)

\* one iteration of the cap loop up to the test of best_overall
Pass(max_cap) ==
  StartLoop(Starts(0), [found |-> FALSE, cost |-> INF, sol |-> <<>>], max_cap)

(***************************************************************************)
(* Renderer.                                                               *)
(***************************************************************************)
RECURSIVE MaxAcol(_)
MaxAcol(s) == IF Len(s) = 1 THEN s[1].acol
              ELSE Max2(s[1].acol, MaxAcol(Tail(s)))

\* aw[aidx] = aw[aidx].upper(); "".join(aw)
UpperAt(word, aidx) ==
  IF 0 <= aidx /\ aidx < Len(word)
  THEN SubSeq(word, 1, aidx) \o Upper(word[aidx + 1])
       \o SubSeq(word, aidx + 2, Len(word))
  ELSE word

\* sep.join(parts)
RECURSIVE Join(_, _)
Join(parts, sep) ==
  IF parts = <<>> THEN <<>>
  ELSE IF Len(parts) = 1 THEN parts[1]
  ELSE parts[1] \o <<sep>> \o Join(Tail(parts), sep)

Spaces(k) == [x \in 1..k |-> " "]

RenderLine(c, target) ==
  LET seg_words == [k \in 1..(c.e - c.a + 1) |->
                      IF k = c.j - c.a + 1
                      THEN UpperAt(words[c.a + k], c.aidx)
                      ELSE words[c.a + k]]
  IN Spaces(target - c.acol) \o Join(seg_words, " ")

RenderLines(chain) ==
  [k \in 1..Len(chain) |-> RenderLine(chain[k], MaxAcol(chain))]

(***************************************************************************)
(* The call as a state machine.                                            *)
(***************************************************************************)
DefaultSteps(mc) == <<mc, mc + 8, mc + 16, mc + 24, 120>>

InitCall(ws, b, cfg) ==
  /\ words = ws
  /\ band = b
  /\ min_chars = cfg.min
  /\ max_chars = cfg.max
  /\ growth_arg = cfg.growth
  /\ pc = "start"
  /\ growth_steps = <<>>
  /\ step = 0
  /\ passes = <<>>
  /\ sol = <<>>
  /\ target_col = 0
  /\ lines = <<>>
  /\ result = <<>>
  /\ cand_cache = {}
  /\ solve_cache = {}
  /\ cache_reads = {}

Init ==
  \/ \E ws \in SeqsUpTo(WordSet, MaxWords), b \in Bands, cfg \in Configs :
        InitCall(ws, b, cfg)
  \/ \E ws \in SeqsUpTo(LongWordSet, MaxLongWords), b \in LongBands,
        cfg \in LongConfigs : Len(ws) > MaxWords /\ InitCall(ws, b, cfg)
  \/ \E ws \in ShortTexts, b \in ShortBands, cfg \in DefaultConfigs :
        InitCall(ws, b, cfg)
  \/ \E ws \in ShortTexts, b \in HugeBands, cfg \in HugeConfigs :
        InitCall(ws, b, cfg)
  \/ \E ws \in WideTexts, b \in WideBands, cfg \in WideConfigs :
        InitCall(ws, b, cfg)

\* variant: only the token is tested for emptiness
Start_bandOnly ==
  /\ pc = "start"
  /\ growth_steps' = IF growth_arg.given THEN growth_arg.steps
                     ELSE DefaultSteps(max_chars)
  /\ IF band = <<>>
     THEN /\ pc' = "done"
          /\ result' = Sentinel
     ELSE /\ pc' = "loop"
          /\ result' = result
  /\ UNCHANGED <<words, band, min_chars, max_chars, growth_arg, step, passes,
                 sol, target_col, lines, cand_cache, solve_cache, cache_reads>>

\* defaulting of growth_steps and the guards on the cleaned inputs
Start ==
  /\ pc = "start"
  /\ growth_steps' = IF growth_arg.given THEN growth_arg.steps
                     ELSE DefaultSteps(max_chars)
  /\ IF words = <<>> \/ band = <<>>
     THEN /\ pc' = "done"
          /\ result' = Sentinel
     ELSE /\ pc' = "loop"
          /\ result' = result
  /\ UNCHANGED <<words, band, min_chars, max_chars, growth_arg, step, passes,
                 sol, target_col, lines, cand_cache, solve_cache, cache_reads>>

(***************************************************************************)
(* The lru caches of one iteration.  A cache entry is [fn, i, pos, pass]:  *)
(* the arguments of the call that computed it and the 1-based number of    *)
(* the iteration during which it was computed.                             *)
(***************************************************************************)
\* the arguments pos of the calls solve(i + 1, pos) that the bodies of
\* solve(i, p), p in cur and p >= from, make, in call order
RECURSIVE CallsFrom(_, _, _, _)
CallsFrom(i, from, cur, cap) ==
  IF from >= n THEN <<>>
  ELSE IF from \in cur
       THEN LET cands == candidates(i, from, cap)
            IN [k \in 1..Len(cands) |-> cands[k].e + 1]
               \o CallsFrom(i, from + 1, cur, cap)
       ELSE CallsFrom(i, from + 1, cur, cap)

\* the values that occur more than once in s
Twice(s) ==
  { s[k] : k \in { x \in 1..Len(s) : \E y \in 1..Len(s) : y # x /\ s[y] = s[x] } }

\* the calls of solve for letters i.. when solve(i, p) is called for p in cur:
\* keys, the arguments called; hits, the arguments called more than once
RECURSIVE CallTrace(_, _, _)
CallTrace(i, cur, cap) ==
  IF i = m THEN [keys |-> { <<i, p>> : p \in cur }, hits |-> {}]
  ELSE LET calls == CallsFrom(i, 0, cur, cap)
           rest == CallTrace(i + 1, { calls[k] : k \in 1..Len(calls) }, cap)
       IN [keys |-> { <<i, p>> : p \in cur } \cup rest.keys,
           hits |-> { <<i + 1, q>> : q \in Twice(calls) } \cup rest.hits]

\* the calls of one pass: solve(0, pos0) for pos0 in starts
PassTrace(cap) ==
  LET starts == Starts(0)
  IN CallTrace(0, { starts[k] : k \in 1..Len(starts) }, cap)

\* lru_cache(maxsize=None) applied to a new function: a new, empty cache
NewCache == {}

\* the cache after the calls at keys: a key already cached is not recomputed
CacheAfter(cache, fn, keys, pass) ==
  cache \cup { [fn |-> fn, i |-> key[1], pos |-> key[2], pass |-> pass] :
               key \in { x \in keys : \A en \in cache : <<en.i, en.pos>> # x } }

\* the entries a call found in the cache: those computed before the calls
\* began and those of the keys called more than once
EntriesRead(cache, fn, keys, hits, pass) ==
  { en \in CacheAfter(cache, fn, keys, pass) :
      /\ <<en.i, en.pos>> \in keys
      /\ en \in cache \/ <<en.i, en.pos>> \in hits }

\* variant: a cap without a chain returns the sentinel at once
TryCap_giveUp ==
  /\ pc = "loop"
  /\ step < Len(growth_steps)
  /\ \E max_cap \in {growth_steps[step + 1]} :
     \E best_overall \in {Pass(max_cap)} :
     \E trace \in {PassTrace(max_cap)} :
        /\ cand_cache' = CacheAfter(NewCache, "candidates",
                                    { key \in trace.keys : key[1] < m }, step + 1)
        /\ solve_cache' = CacheAfter(NewCache, "solve", trace.keys, step + 1)
        /\ cache_reads' = EntriesRead(NewCache, "solve", trace.keys,
                                      trace.hits, step + 1)
        /\ passes' = Append(passes, [cap |-> max_cap,
                                     found |-> best_overall.found,
                                     cost |-> best_overall.cost])
        /\ IF best_overall.found
           THEN /\ sol' = best_overall.sol
                /\ target_col' = MaxAcol(sol')
                /\ lines' = RenderLines(sol')
                /\ result' = Join(lines', "\n")
                /\ pc' = "done"
                /\ step' = step
           ELSE /\ step' = step + 1
                /\ result' = Sentinel
                /\ pc' = "done"
                /\ UNCHANGED <<sol, target_col, lines>>
  /\ UNCHANGED <<words, band, min_chars, max_chars, growth_arg, growth_steps>>

\* variant: the two caches are made once, before the loop, and kept
TryCap_sharedCache ==
  /\ pc = "loop"
  /\ step < Len(growth_steps)
  /\ \E max_cap \in {growth_steps[step + 1]} :
     \E best_overall \in {Pass(max_cap)} :
     \E trace \in {PassTrace(max_cap)} :
        /\ cand_cache' = CacheAfter(cand_cache, "candidates",
                                    { key \in trace.keys : key[1] < m }, step + 1)
        /\ solve_cache' = CacheAfter(solve_cache, "solve", trace.keys, step + 1)
        /\ cache_reads' = EntriesRead(solve_cache, "solve", trace.keys,
                                      trace.hits, step + 1)
        /\ passes' = Append(passes, [cap |-> max_cap,
                                     found |-> best_overall.found,
                                     cost |-> best_overall.cost])
        /\ IF best_overall.found
           THEN /\ sol' = best_overall.sol
                /\ target_col' = MaxAcol(sol')
                /\ lines' = RenderLines(sol')
                /\ result' = Join(lines', "\n")
                /\ pc' = "done"
                /\ step' = step
           ELSE /\ step' = step + 1
                /\ UNCHANGED <<sol, target_col, lines, result, pc>>
  /\ UNCHANGED <<words, band, min_chars, max_chars, growth_arg, growth_steps>>

\* one iteration of  for max_cap in growth_steps
TryCap ==
  /\ pc = "loop"
  /\ step < Len(growth_steps)
  /\ \E max_cap \in {growth_steps[step + 1]} :
     \E best_overall \in {Pass(max_cap)} :
     \E trace \in {PassTrace(max_cap)} :
        /\ cand_cache' = CacheAfter(NewCache, "candidates",
                                    { key \in trace.keys : key[1] < m }, step + 1)
        /\ solve_cache' = CacheAfter(NewCache, "solve", trace.keys, step + 1)
        /\ cache_reads' = EntriesRead(NewCache, "solve", trace.keys,
                                      trace.hits, step + 1)
        /\ passes' = Append(passes, [cap |-> max_cap,
                                     found |-> best_overall.found,
                                     cost |-> best_overall.cost])
        /\ IF best_overall.found
           THEN /\ sol' = best_overall.sol
                /\ target_col' = MaxAcol(sol')
                /\ lines' = RenderLines(sol')
                /\ result' = Join(lines', "\n")
                /\ pc' = "done"
                /\ step' = step
           ELSE /\ step' = step + 1
                /\ UNCHANGED <<sol, target_col, lines, result, pc>>
  /\ UNCHANGED <<words, band, min_chars, max_chars, growth_arg, growth_steps>>

\* the loop is over: return the sentinel
Exhausted ==
  /\ pc = "loop"
  /\ step >= Len(growth_steps)
  /\ pc' = "done"
  /\ result' = Sentinel
  /\ UNCHANGED <<words, band, min_chars, max_chars, growth_arg, growth_steps,
                 step, passes, sol, target_col, lines,
                 cand_cache, solve_cache, cache_reads>>

Next == Start \/ TryCap \/ Exhausted

Spec == Init /\ [][Next]_vars

(***************************************************************************)
(* Reading a returned layout.                                              *)
(***************************************************************************)
Success == pc = "done" /\ result # Sentinel

\* result.split("\n")
RECURSIVE SplitLines(_, _)
SplitLines(s, cur) ==
  IF s = <<>> THEN <<cur>>
  ELSE IF Head(s) = "\n" THEN <<cur>> \o SplitLines(Tail(s), <<>>)
  ELSE SplitLines(Tail(s), Append(cur, Head(s)))

ResultLines == SplitLines(result, <<>>)

\* number of leading spaces of a line
RECURSIVE Indent(_)
Indent(l) == IF l # <<>> /\ Head(l) = " " THEN 1 + Indent(Tail(l)) ELSE 0

\* characters of words a..j-1, each followed by one separating space
RECURSIVE CharsBefore(_, _)
CharsBefore(a, j) ==
  IF j <= a THEN 0 ELSE Len(words[a + 1]) + 1 + CharsBefore(a + 1, j)

\* the anchor column of a line of the chain before padding
AnchorColumn(c) == CharsBefore(c.a, c.j) + c.aidx

\* the line of the chain before rendering: its words joined by single spaces
PlainLine(c) == Join([k \in 1..(c.e - c.a + 1) |-> words[c.a + k]], " ")

\* the largest anchor column of the chain
TargetColumn ==
  CHOOSE t \in { AnchorColumn(sol[k]) : k \in 1..Len(sol) } :
    \A k \in 1..Len(sol) : AnchorColumn(sol[k]) <= t

(***************************************************************************)
(* C1: every successful result is a chain of exactly m lines, one per      *)
(* token letter; line 0 starts at a start word (a word containing the      *)
(* first letter); every later line starts at the word after the previous   *)
(* line's last word; so every word of the span from the first to the last  *)
(* printed word lies in exactly one line, and the anchor word indices      *)
(* strictly increase.                                                      *)
(***************************************************************************)
C1_Coverage ==
  Success =>
    /\ Len(sol) = m
    /\ Len(ResultLines) = m
    /\ Contains(words[sol[1].a + 1], band[1])
    /\ \A k \in 1..m : 0 <= sol[k].a /\ sol[k].a <= sol[k].j
                       /\ sol[k].j <= sol[k].e /\ sol[k].e < n
    /\ \A k \in 2..m : sol[k].a = sol[k - 1].e + 1 /\ sol[k].j > sol[k - 1].j
    /\ \A w \in sol[1].a..sol[m].e :
         Cardinality({ k \in 1..m : sol[k].a <= w /\ w <= sol[k].e }) = 1

C1_Witness ==
  /\ Success
  /\ m >= 2
  /\ \E k \in 1..Len(sol) : sol[k].e > sol[k].j
  /\ sol[1].a > 0

(***************************************************************************)
(* C2: in every successful result, for every token length m >= 1, the      *)
(* anchor word of the first line is its first word and the anchor word of  *)
(* the last line is its last word.                                         *)
(***************************************************************************)
C2_FirstLastAnchor ==
  Success => /\ Len(sol) >= 1
             /\ sol[1].j = sol[1].a
             /\ sol[Len(sol)].e = sol[Len(sol)].j

C2_Witness ==
  /\ Success
  /\ m = 1
  /\ sol[1].e + 1 < n

(***************************************************************************)
(* C3: in every successful result every line is left-padded with           *)
(* (target column - anchor column) spaces, the target column being the     *)
(* largest anchor column of the chain, and the anchor character of every   *)
(* line sits at column index target column of its rendered line.           *)
(***************************************************************************)
C3_AnchorAlignment ==
  Success =>
    \A k \in 1..Len(sol) :
      LET line == ResultLines[k]
          c == sol[k]
      IN /\ Indent(line) = TargetColumn - AnchorColumn(c)
         /\ Indent(line) + AnchorColumn(c) = TargetColumn
         /\ Len(line) > TargetColumn
         /\ line[TargetColumn + 1] = Head(Upper(words[c.j + 1][c.aidx + 1]))

C3_Witness ==
  /\ Success
  /\ m >= 2
  /\ \E k, l \in 1..Len(sol) :
       /\ AnchorColumn(sol[k]) < AnchorColumn(sol[l])
       /\ sol[l].j > sol[l].a
       /\ sol[l].aidx > 0

(***************************************************************************)
(* C4: in every successful result the character at the anchor position of  *)
(* line i is, case-folded, the i-th letter of the token, and it is the     *)
(* only character of the line that rendering changes.                      *)
(***************************************************************************)
\* str.casefold() of one character
Fold(c) ==
  CASE c = "A" -> <<"a">>
    [] c = "B" -> <<"b">>
    [] c = "C" -> <<"c">>
    [] c = "S" -> <<"s">>
    [] c = "sz" -> <<"s", "s">>
    [] OTHER -> <<c>>

C4_LetterFidelity ==
  Success =>
    \A k \in 1..Len(sol) :
      LET line == ResultLines[k]
          plain == PlainLine(sol[k])
          pad == Indent(line)
          col == AnchorColumn(sol[k])
      IN /\ Len(line) = pad + Len(plain)
         /\ Fold(line[pad + col + 1]) = <<band[k]>>
         /\ \A x \in 1..Len(plain) : x # col + 1 => line[pad + x] = plain[x]

(***************************************************************************)
(* C5: if the cleaned text or the cleaned token is empty, the call returns *)
(* the sentinel without entering the cap loop: no pass is ever run.        *)
(***************************************************************************)
C5_EmptyInputs ==
  (words = <<>> \/ band = <<>>) =>
    /\ passes = <<>>
    /\ pc # "loop"
    /\ pc = "done" => result = Sentinel

C5_Witness ==
  /\ pc = "done"
  /\ words = <<>>
  /\ band # <<>>
  /\ growth_steps # <<>>
  /\ result = Sentinel

(***************************************************************************)
(* C6: if the token has more letters than the text has words, the call     *)
(* returns the sentinel, whatever the schedule.                            *)
(***************************************************************************)
C6_TokenLongerThanText ==
  (pc = "done" /\ m > n) => result = Sentinel

C6_Witness ==
  /\ pc = "done"
  /\ m > n
  /\ n >= 1
  /\ \A k \in 1..m : Contains(words[1], band[k])
  /\ Len(passes) = Len(growth_steps)
  /\ Len(passes) >= 2
  /\ result = Sentinel

(***************************************************************************)
(* C7: if no strictly increasing word indices j_0 < ... < j_(m-1) exist    *)
(* with word j_i containing token letter i, the call returns the sentinel. *)
(***************************************************************************)
\* letters i..m-1 can be matched in order in words p..n-1
RECURSIVE Embeds(_, _)
Embeds(i, p) ==
  \/ i = m
  \/ \E j \in p..(n - 1) : Contains(words[j + 1], band[i + 1]) /\ Embeds(i + 1, j + 1)

C7_NoSubsequence ==
  (pc = "done" /\ ~Embeds(0, 0)) => result = Sentinel

C7_Witness ==
  /\ pc = "done"
  /\ ~Embeds(0, 0)
  /\ n >= m
  /\ \A k \in 1..m : \E w \in 1..n : Contains(words[w], band[k])
  /\ \E k \in 1..Len(passes) : passes[k].cap >= seg_len(0, n - 1)
  /\ result = Sentinel

(***************************************************************************)
(* C8: if at some cap C of the schedule a Chain of the data model exists   *)
(* (m contiguous word ranges, the first line anchored at its first word,   *)
(* the last line at its last word, word j_i containing token letter i,     *)
(* every line of at most C characters), the call returns a layout.         *)
(***************************************************************************)
\* lines i..m-1 of such a chain can be laid out from word pos on
RECURSIVE DataChain(_, _, _)
DataChain(i, pos, C) ==
  \/ i = m
  \/ \E j \in pos..(n - 1) : \E e \in j..(n - 1) :
       /\ i = 0 => j = pos
       /\ i = m - 1 => e = j
       /\ Contains(words[j + 1], band[i + 1])
       /\ seg_len(pos, e) <= C
       /\ DataChain(i + 1, e + 1, C)

ChainExists(C) == \E p \in 0..(n - 1) : DataChain(0, p, C)

C8_ChainImpliesLayout ==
  (pc = "done" /\ m >= 1
   /\ \E k \in 1..Len(growth_steps) : ChainExists(growth_steps[k]))
    => result # Sentinel

(***************************************************************************)
(* C9: for non-empty inputs the caps are tried one at a time in schedule   *)
(* order; a cap without a chain leads to the next cap and not to the       *)
(* sentinel; the first cap with a chain leads to the rendered result and   *)
(* no later cap is tried; the sentinel is returned only when every cap     *)
(* has been tried and has failed; and every call returns, after at most    *)
(* one pass per schedule entry.                                            *)
(***************************************************************************)
\* steps still to be taken before the call returns, at most
C9_Remaining ==
  CASE pc = "start" -> Len(IF growth_arg.given THEN growth_arg.steps
                           ELSE DefaultSteps(max_chars)) + 2
    [] pc = "loop" -> Len(growth_steps) - step + 1
    [] OTHER -> 0

\* in every state that has not returned, one step of the call is possible
C9_Running ==
  /\ pc \in {"start", "loop", "done"}
  /\ pc = "loop" => step = Len(passes) /\ step <= Len(growth_steps)
  /\ pc = "done" => (result = Sentinel) # (Len(result) > 0 /\ result = Join(lines, "\n")
                                          /\ Len(lines) = m)

C9_Step ==
  /\ pc # "done"
  /\ C9_Remaining' < C9_Remaining /\ C9_Remaining' >= 0
  /\ Len(passes') <= Len(growth_steps')
  /\ (pc = "loop" /\ step < Len(growth_steps)) =>
       /\ Len(passes') = Len(passes) + 1
       /\ SubSeq(passes', 1, Len(passes)) = passes
       /\ passes'[Len(passes')].cap = growth_steps[Len(passes) + 1]
       /\ IF passes'[Len(passes')].found
          THEN pc' = "done" /\ result' # Sentinel
          ELSE pc' = "loop" /\ step' = step + 1 /\ result' = result
  /\ (pc = "loop" /\ pc' = "done" /\ result' = Sentinel) =>
       /\ passes' = passes
       /\ Len(passes) = Len(growth_steps)
       /\ \A k \in 1..Len(passes) :
            ~passes[k].found /\ passes[k].cap = growth_steps[k]
  /\ (pc' = "done" /\ result' # Sentinel) =>
       /\ passes'[Len(passes')].found
       /\ \A k \in 1..(Len(passes') - 1) : ~passes'[k].found

C9_CapLoop == []C9_Running /\ [][C9_Step]_vars

C9_Witness ==
  /\ pc = "done"
  /\ result # Sentinel
  /\ Len(passes) >= 2
  /\ Len(passes) < Len(growth_steps)
  /\ ~passes[1].found

(***************************************************************************)
(* C10: monotonic retry: for the same words, token and min_chars, if the   *)
(* pass at a cap C finds a chain, the pass at any larger cap C' finds one  *)
(* too, of a total score at most the total score found at C.               *)
(***************************************************************************)
C10_MonotonicRetry ==
  (pc = "loop" /\ step = 0) =>
    \A k, l \in 1..Len(growth_steps) :
      (growth_steps[k] < growth_steps[l] /\ Pass(growth_steps[k]).found) =>
        /\ Pass(growth_steps[l]).found
        /\ Pass(growth_steps[l]).cost <= Pass(growth_steps[k]).cost

(***************************************************************************)
(* C11: in every successful result the length of every line before its     *)
(* left padding (its words joined by single spaces) is at most the cap of  *)
(* the iteration that produced the layout, and so at most the largest cap  *)
(* of the schedule.                                                        *)
(***************************************************************************)
\* the largest cap of the schedule
MaxCap ==
  CHOOSE c \in { growth_steps[k] : k \in 1..Len(growth_steps) } :
    \A k \in 1..Len(growth_steps) : growth_steps[k] <= c

\* the cap of the iteration that ran last
ProducingCap == passes[Len(passes)].cap

\* a pass has just ended: the loop goes on or the layout is returned
AfterPass == passes # <<>> /\ m >= 1 /\ (pc = "loop" \/ Success)

C11_LineWithinCap ==
  Success =>
    \A k \in 1..Len(ResultLines) :
      LET line == ResultLines[k]
      IN /\ Len(line) - Indent(line) <= ProducingCap
         /\ Len(line) - Indent(line) <= MaxCap

\* the same bound on the lines as the generator measures them (seg_len)
C11_PlainWithinCap ==
  Success =>
    \A k \in 1..Len(sol) :
      /\ Len(PlainLine(sol[k])) = seg_len(sol[k].a, sol[k].e)
      /\ Len(PlainLine(sol[k])) <= ProducingCap

(***************************************************************************)
(* C12: when no growth schedule is supplied, the default schedule starts   *)
(* at max_chars, every later cap is larger than the cap before it, and the *)
(* last cap is 120, for every value of max_chars.                          *)
(***************************************************************************)
C12_DefaultSchedule ==
  (pc # "start" /\ ~growth_arg.given) =>
    /\ Len(growth_steps) >= 1
    /\ growth_steps[1] = max_chars
    /\ growth_steps[Len(growth_steps)] = 120
    /\ \A k \in 1..(Len(growth_steps) - 1) : growth_steps[k] < growth_steps[k + 1]

\* what does hold of the default schedule for every max_chars
C12_DefaultScheduleShape ==
  (pc # "start" /\ ~growth_arg.given) =>
    /\ Len(growth_steps) = 5
    /\ growth_steps[1] = max_chars
    /\ growth_steps[5] = 120
    /\ \A k \in 1..3 : growth_steps[k + 1] = growth_steps[k] + 8
    /\ growth_steps[4] < growth_steps[5] <=> max_chars < 96

(***************************************************************************)
(* C13: at a fixed cap, solve(i, pos) returns the minimum, over all chains *)
(* built by chaining the generator's pruned candidates for letters         *)
(* i..m-1 from word pos on (each next line starting at the previous        *)
(* e + 1), of the sum of the candidate scores, and "infeasible" exactly    *)
(* when there is no such chain; the top level returns the chain of         *)
(* minimum total over all start words, the lowest start index winning      *)
(* among equal totals.                                                     *)
(***************************************************************************)
\* the totals of all chains for letters i..m-1 from word pos on
RECURSIVE ChainTotals(_, _, _)
ChainTotals(i, pos, cap) ==
  IF i = m THEN {0}
  ELSE LET cands == candidates(i, pos, cap)
       IN UNION { { cands[k].sc + t : t \in ChainTotals(i + 1, cands[k].e + 1, cap) }
                  : k \in 1..Len(cands) }

\* the totals that the lines of chain can have as a chain of candidates
RECURSIVE ChainSums(_, _, _, _)
ChainSums(i, pos, chain, cap) ==
  IF chain = <<>> THEN (IF i = m THEN {0} ELSE {})
  ELSE IF i = m THEN {}
  ELSE LET cands == candidates(i, pos, cap)
       IN UNION { { cands[k].sc + t :
                      t \in ChainSums(i + 1, cands[k].e + 1, Tail(chain), cap) }
                  : k \in { x \in 1..Len(cands) : Entry(cands[x]) = Head(chain) } }

Least(S) == CHOOSE x \in S : \A y \in S : x <= y

StartSet == { p \in 0..(n - 1) : Contains(words[p + 1], band[1]) }

\* solve at (i, pos) against the chains with totals in T
SolveAgrees(i, pos, cap, T) ==
  LET r == solve(i, pos, cap)
  IN IF T = {} THEN r.cost = INF
     ELSE /\ r.cost = Least(T)
          /\ r.cost \in ChainSums(i, pos, r.sol, cap)

\* the last pass against the chains of every start, with totals in T[p]
TopAgrees(cap, T) ==
  LET last == passes[Len(passes)]
      feasible == { p \in StartSet : T[p] # {} }
  IN /\ last.found <=> feasible # {}
     /\ last.found =>
          LET best == Least(UNION { T[p] : p \in feasible })
          IN /\ last.cost = best
             /\ pc = "done" =>
                  /\ sol[1].a = Least({ p \in feasible : Least(T[p]) = best })
                  /\ best \in ChainSums(0, sol[1].a, sol, cap)

C13_SolveIsMinimum ==
  (passes # <<>> /\ m >= 1) =>
    /\ \A i \in 0..m, pos \in 0..n :
         SolveAgrees(i, pos, ProducingCap, ChainTotals(i, pos, ProducingCap))
    /\ TopAgrees(ProducingCap, [p \in StartSet |-> ChainTotals(0, p, ProducingCap)])

\* the same with the chains of a total of 10**9 or more left out
C13_MinimumBelowINF ==
  (passes # <<>> /\ m >= 1) =>
    /\ \A i \in 0..m, pos \in 0..n :
         SolveAgrees(i, pos, ProducingCap,
                     { t \in ChainTotals(i, pos, ProducingCap) : t < INF })
    /\ TopAgrees(ProducingCap,
                 [p \in StartSet |->
                    { t \in ChainTotals(0, p, ProducingCap) : t < INF }])

(***************************************************************************)
(* C14: pruning to TOP_K never loses feasibility: for every letter index,  *)
(* start word and cap, every anchor-alone candidate (e = j) generated      *)
(* within the cap is still in the pruned result, and whenever a chain      *)
(* exists over the unpruned candidate lists at a cap, a chain exists over  *)
(* the pruned candidate lists at that cap.                                 *)
(***************************************************************************)
\* the list out of candidates(i, pos) before it is pruned
Unpruned(i, pos, max_cap) ==
  IF pos >= n THEN <<>> ELSE AnchorLoop(i, pos, pos, max_cap)

\* a chain for letters i..m-1 from word pos on, over pruned or unpruned lists
RECURSIVE HasChain(_, _, _, _)
HasChain(i, pos, cap, pruned) ==
  \/ i = m
  \/ LET cands == IF pruned THEN candidates(i, pos, cap) ELSE Unpruned(i, pos, cap)
     IN \E k \in 1..Len(cands) : HasChain(i + 1, cands[k].e + 1, cap, pruned)

\* every anchor-alone candidate of out is in the pruned list
AloneKept(i, pos, cap) ==
  LET out == Unpruned(i, pos, cap)
      kept == candidates(i, pos, cap)
  IN \A k \in 1..Len(out) :
       out[k].e = out[k].j => \E x \in 1..Len(kept) : kept[x] = out[k]

C14_PruningKeepsFeasibility ==
  (passes # <<>> /\ m >= 1) =>
    /\ \A i \in 0..(m - 1), pos \in 0..(n - 1) : AloneKept(i, pos, ProducingCap)
    /\ (\E p \in StartSet : HasChain(0, p, ProducingCap, FALSE))
         => (\E p \in StartSet : HasChain(0, p, ProducingCap, TRUE))

\* the part that holds: the anchor-alone candidates survive pruning
C14_AloneCandidatesKept ==
  (passes # <<>> /\ m >= 1) =>
    \A i \in 0..(m - 1), pos \in 0..(n - 1) : AloneKept(i, pos, ProducingCap)

\* a state in which pruning has dropped candidates
C14_Pruned ==
  /\ passes # <<>> /\ m >= 1
  /\ \E i \in 0..(m - 1), pos \in 0..(n - 1) :
       /\ Len(Unpruned(i, pos, ProducingCap)) > TOP_K
       /\ \E k \in 1..Len(Unpruned(i, pos, ProducingCap)) :
            \A x \in 1..Len(candidates(i, pos, ProducingCap)) :
              candidates(i, pos, ProducingCap)[x] # Unpruned(i, pos, ProducingCap)[k]

(***************************************************************************)
(* C15: the caches of the candidate generator and of the optimizer are     *)
(* owned by one cap iteration: every cached candidate list or solve        *)
(* result read during the pass at a cap was computed during that same      *)
(* pass, never during a pass at another cap or before the loop.            *)
(***************************************************************************)
\* the arguments of solve reachable from solve(i, p), p in cur, at cap
RECURSIVE Reachable(_, _, _)
Reachable(i, cur, cap) ==
  { <<i, p>> : p \in cur } \cup
  IF i = m THEN {}
  ELSE Reachable(i + 1,
                 UNION { { cands[k].e + 1 : k \in 1..Len(cands) } :
                         cands \in { candidates(i, pos, cap) : pos \in cur } },
                 cap)

C15_CacheOwnedByPass ==
  /\ passes = <<>> => cand_cache = {} /\ solve_cache = {} /\ cache_reads = {}
  /\ passes # <<>> =>
       /\ \A en \in cache_reads : en.pass = Len(passes)
       /\ \A en \in cand_cache \cup solve_cache : en.pass = Len(passes)
       /\ cache_reads \subseteq solve_cache
  /\ AfterPass =>
       /\ \A keys \in {Reachable(0, StartSet, ProducingCap)} :
            /\ { <<en.i, en.pos>> : en \in solve_cache } = keys
            /\ { <<en.i, en.pos>> : en \in cand_cache } = { k \in keys : k[1] < m }

\* a later pass reads the result of a call that an earlier pass made as well,
\* and the two passes have different results for it
C15_Witness ==
  /\ Len(passes) >= 2
  /\ passes[1].cap # ProducingCap
  /\ \E en \in cache_reads :
       /\ <<en.i, en.pos>> \in Reachable(0, StartSet, passes[1].cap)
       /\ solve(en.i, en.pos, passes[1].cap) # solve(en.i, en.pos, ProducingCap)

(***************************************************************************)
(* C16: the generator gives the scorer the current cap as its maximum      *)
(* length and emits only candidates of a line length of at most that cap,  *)
(* so the over-length penalty 2 * (L - max_len) is zero for every          *)
(* candidate ever generated: the score of every candidate is               *)
(* |anchor column - (L - 1) / 2| + max(0, min_chars - L), whatever the cap *)
(* and whatever max_chars.                                                 *)
(***************************************************************************)
\* twice |acol - (L - 1) / 2| + max(0, min_chars - L)
CapFreeScore(acol, L) == Abs(2 * acol - (L - 1)) + 2 * Max2(0, min_chars - L)

\* the candidates the same calls generate at the cap of the iteration before
GeneratedEarlier ==
  IF Len(passes) >= 2
  THEN UNION { { out[k] : k \in 1..Len(out) } :
               out \in { Unpruned(en.i, en.pos, passes[Len(passes) - 1].cap) :
                         en \in cand_cache } }
  ELSE {}

\* every candidate generated by the calls of candidates in the last
\* iteration, kept by the pruning or not
GeneratedLast ==
  UNION { { out[k] : k \in 1..Len(out) } :
          out \in { Unpruned(en.i, en.pos, ProducingCap) : en \in cand_cache } }

C16_ScoreIgnoresCap ==
  AfterPass =>
    \A last \in {GeneratedLast} :
      /\ \A c \in last :
           /\ c.L = Len(PlainLine(c))
           /\ c.L <= ProducingCap
           /\ c.acol = AnchorColumn(c)
           /\ c.sc = CapFreeScore(c.acol, c.L)
      /\ \A scored \in {{ <<Key(c), c.sc>> : c \in last \cup GeneratedEarlier }} :
           Cardinality({ ks[1] : ks \in scored }) = Cardinality(scored)

\* candidates longer than max_chars and candidates shorter than min_chars
\* were generated at a cap above max_chars, after a pass at a smaller cap
C16_Witness ==
  /\ Len(passes) >= 2
  /\ ProducingCap > max_chars
  /\ passes[1].cap < ProducingCap
  /\ \E c \in GeneratedLast : c.L > max_chars /\ c.L = ProducingCap
  /\ \E c \in GeneratedLast : c.L < min_chars
  /\ \E c \in GeneratedEarlier, d \in GeneratedLast : Key(c) = Key(d)

====
